---- MODULE Spec2Model ----
(***************************************************************************)
(* Connection search of the transport app (transport/views.py,             *)
(* ConnectionSearchView) over the RoutePoint table (transport/models/      *)
(* route.py).  Times of day are seconds since midnight, distances are      *)
(* whole kilometres, a route's stops are kept in sequence order and the    *)
(* sequence number of a stop is its position in the route.                 *)
(***************************************************************************)
EXTENDS Integers, Sequences, FiniteSets, TLC

\* ---------------------------------------------------------------- bounds
NumStations == 4
NumWorkers == 2
NumRoutes == 3
MaxStops == 3
MaxPoints == 7
MaxLegStops == 4
MaxTextLen == 2
MaxJourneys == 8

\* ------------------------------------------------------- program constants
DaySeconds == 86400
MinuteSeconds == 60
DayMinutes == 1440
HTTP_200_OK == 200
HTTP_400_BAD_REQUEST == 400
HTTP_404_NOT_FOUND == 404

\* None of a nullable column or an absent row.
Null == -1

Stations == 1 .. NumStations
Routes == 1 .. NumRoutes
\* The sequence numbers a stop may have.
SequenceNumbers == 1 .. (IF MaxStops > MaxLegStops THEN MaxStops ELSE MaxLegStops)
\* An integer id that is no row of the Station table.
UnknownId == NumStations + 1
\* The threads of the server that answer requests.
Workers == 1 .. NumWorkers

\* ------------------------------------------------------------------ state
VARIABLES routePoints, request, response, invoked, depTime, arrTime, travel, leg, legQuery,
          routeRows, pc, req, frame, result, dirty, journeys

vars == <<routePoints, request, response, invoked, depTime, arrTime, travel, leg, legQuery,
          routeRows, pc, req, frame, result, dirty, journeys>>

searchVars == <<routePoints, request, response, invoked>>
timeVars == <<depTime, arrTime, travel>>
legVars == <<leg, legQuery>>
threadVars == <<pc, req, frame, result, dirty>>

\* ---------------------------------------------------------------- helpers
\* A Python for loop over s that appends the results f[x] of each element x.
RECURSIVE FlatMap(_, _)
FlatMap(f, s) == IF s = <<>> THEN <<>> ELSE f[Head(s)] \o FlatMap(f, Tail(s))

\* The integers a..b in increasing order, as a sequence.
Range(a, b) == [k \in 1 .. (IF b >= a THEN b - a + 1 ELSE 0) |-> a + k - 1]

\* list.sort(key=...) on a list of <<key, item>> pairs: a stable sort, smaller
\* keys first (insertion sort from the back).
RECURSIVE InsertByKey(_, _)
InsertByKey(pair, s) ==
    IF s = <<>> THEN <<pair>>
    ELSE IF pair[1] < Head(s)[1] THEN <<pair>> \o s
    ELSE <<Head(s)>> \o InsertByKey(pair, Tail(s))

RECURSIVE SortByKey(_)
SortByKey(s) ==
    IF s = <<>> THEN <<>>
    ELSE InsertByKey(s[Len(s)], SortByKey(SubSeq(s, 1, Len(s) - 1)))

\* The items of a list of <<key, item>> pairs.
Items(pairs) == [i \in 1 .. Len(pairs) |-> pairs[i][2]]

\* ------------------------------------------------------- RoutePoint queries
\* The rows of one route, ordered by sequence (Meta.ordering).
PointsOf(r) == routePoints[r]

\* RoutePoint.objects.filter(route_id=r, station_id=s).first(): the row with
\* the lowest sequence, or None.
FirstPoint(r, s) ==
    LET hits == {i \in 1 .. Len(PointsOf(r)) : PointsOf(r)[i].station = s}
    IN  IF hits = {} THEN Null ELSE CHOOSE i \in hits : \A j \in hits : i <= j

\* RoutePoint.objects.filter(station_id=s).values_list('route_id', flat=True):
\* one route id per row, in the default ordering (route, sequence).
RouteIdsAt(s) ==
    FlatMap([r \in Routes |->
                FlatMap([i \in SequenceNumbers |->
                            IF PointsOf(r)[i].station = s THEN <<r>> ELSE <<>>],
                        Range(1, Len(PointsOf(r))))],
            Range(1, NumRoutes))

SeqToSet(s) == {s[i] : i \in 1 .. Len(s)}

\* set(routes_with_from) & set(routes_with_to)
FindCommonRoutes(from_station_id, to_station_id) ==
    SeqToSet(RouteIdsAt(from_station_id)) \cap SeqToSet(RouteIdsAt(to_station_id))

\* Station.objects.get(id=...) finds a row.
StationExists(id) == id \in Stations

\* Route.objects.get(id=route_id) finds a row.
RouteExists(route_id) == route_id \in routeRows

\* ---------------------------------------------------------- segment builder
AnyDirection(departure_point, arrival_point) ==
    departure_point # Null /\ arrival_point # Null

NotAfter(departure_point, arrival_point) ==
    IF departure_point = Null \/ arrival_point = Null THEN FALSE
    ELSE departure_point <= arrival_point

IsValidRouteDirection(departure_point, arrival_point) ==
    IF departure_point = Null \/ arrival_point = Null THEN FALSE
    ELSE departure_point < arrival_point

SubtractDayTravelTime(departure_time, arrival_time) ==
    LET arr_time == IF arrival_time < departure_time
                    THEN arrival_time - DaySeconds ELSE arrival_time
        secs == arr_time - departure_time
    IN  IF secs >= 0 THEN secs \div MinuteSeconds ELSE -((-secs) \div MinuteSeconds)

NoWrapTravelTime(departure_time, arrival_time) ==
    LET d == arrival_time - departure_time
    IN  IF d >= 0 THEN d \div MinuteSeconds ELSE -((-d) \div MinuteSeconds)

\* int((arr - dep).total_seconds() / 60) after moving an earlier arrival to
\* the next day; int() truncates toward zero.
CalculateTravelTime(departure_time, arrival_time) ==
    LET arr_time == IF arrival_time < departure_time
                    THEN arrival_time + DaySeconds ELSE arrival_time
        secs == arr_time - departure_time
    IN  IF secs >= 0 THEN secs \div MinuteSeconds ELSE -((-secs) \div MinuteSeconds)

GetRoutePointsBetween(route_id, start_sequence, end_sequence) ==
    FlatMap([i \in SequenceNumbers |->
                IF i > start_sequence /\ i < end_sequence THEN <<i>> ELSE <<>>],
            Range(1, Len(PointsOf(route_id))))

\* The sequence numbers of the rows with start <= sequence <= end, ascending.
GetRoutePoints(route_id, start_sequence, end_sequence) ==
    FlatMap([i \in SequenceNumbers |->
                IF i >= start_sequence /\ i <= end_sequence THEN <<i>> ELSE <<>>],
            Range(1, Len(PointsOf(route_id))))

\* Sum('distance_from_previous_km') over the rows: SQL SUM skips NULLs and is
\* NULL when no row has a value.
RECURSIVE AggregateSum(_, _)
AggregateSum(route_id, points) ==
    IF points = <<>> THEN Null
    ELSE LET d == PointsOf(route_id)[Head(points)].dist
             rest == AggregateSum(route_id, Tail(points))
         IN  IF d = Null THEN rest
             ELSE IF rest = Null THEN d ELSE d + rest

DistanceFromStart(route_id, route_points, start_sequence) ==
    LET total == AggregateSum(route_id, route_points)
    IN  IF total = Null \/ total = 0 THEN 0 ELSE total

\* route_points.filter(sequence__gt=start).aggregate(total=Sum(...)); `or 0`.
CalculateDistance(route_id, route_points, start_sequence) ==
    LET after == FlatMap([i \in SequenceNumbers |->
                             IF i > start_sequence THEN <<i>> ELSE <<>>],
                         route_points)
        total == AggregateSum(route_id, after)
    IN  IF total = Null \/ total = 0 THEN 0 ELSE total

\* The None a builder returns.
None == [none |-> TRUE]

\* datetime.now().date(): journey dates are counted in days from today.
Today == 0

\* status__in=['SCHEDULED', 'BOARDING', 'DELAYED']
OpenStatuses == {"SCHEDULED", "BOARDING", "DELAYED"}

\* The slice [:5] of the journeys of a connection.
MaxNextJourneys == 5

\* The rows of Journey.objects.filter(route_id=route_id,
\* journey_date__gte=today, status__in=...), each behind its sort key.
OpenJourneys(route_id) ==
    FlatMap([j \in 1 .. Len(journeys) |->
                IF /\ journeys[j].route = route_id
                   /\ journeys[j].journey_date >= Today
                   /\ journeys[j].status \in OpenStatuses
                THEN <<<<journeys[j].scheduled_departure, journeys[j]>>>>
                ELSE <<>>],
            Range(1, Len(journeys)))

AllNextJourneys(route_id) == Items(SortByKey(OpenJourneys(route_id)))

\* _get_next_journeys: .order_by('scheduled_departure')[:5]
GetNextJourneys(route_id) ==
    SubSeq(Items(SortByKey(OpenJourneys(route_id))), 1,
           IF Len(OpenJourneys(route_id)) < MaxNextJourneys
           THEN Len(OpenJourneys(route_id)) ELSE MaxNextJourneys)

StopsCountWithArrival(route_points) == Len(route_points) - 1

\* 'stops_count': route_points.count() - 2
StopsCount(route_points) == Len(route_points) - 2

\* _build_single_connection once both rows are fetched: None against the
\* direction of the route, else the connection of the two rows.
SingleConnectionOfPoints(route_id, from_station_id, to_station_id, departure_point, arrival_point) ==
    IF ~IsValidRouteDirection(departure_point, arrival_point) THEN None
    ELSE LET dep == PointsOf(route_id)[departure_point]
             arr == PointsOf(route_id)[arrival_point]
             route_points == GetRoutePoints(route_id, departure_point, arrival_point)
         IN  [route |-> route_id,
              departure_station |-> from_station_id,
              arrival_station |-> to_station_id,
              departure_time |-> dep.dep,
              arrival_time |-> arr.arr,
              travel_time_minutes |-> CalculateTravelTime(dep.dep, arr.arr),
              distance_km |-> CalculateDistance(route_id, route_points, departure_point),
              stops_count |-> StopsCount(route_points),
              route_points |-> route_points,
              next_journeys |-> GetNextJourneys(route_id)]

\* _build_single_connection: the direct connection of a route, or None.
BuildSingleConnection(route_id, from_station_id, to_station_id) ==
    SingleConnectionOfPoints(route_id, from_station_id, to_station_id,
                             FirstPoint(route_id, from_station_id),
                             FirstPoint(route_id, to_station_id))

\* _build_segment once both rows are fetched.
SegmentOfPoints(route_id, from_station_id, to_station_id, departure_point, arrival_point) ==
    IF ~IsValidRouteDirection(departure_point, arrival_point) THEN None
    ELSE LET dep == PointsOf(route_id)[departure_point]
             arr == PointsOf(route_id)[arrival_point]
             route_points == GetRoutePoints(route_id, departure_point, arrival_point)
         IN  [route |-> route_id,
              departure_station |-> from_station_id,
              arrival_station |-> to_station_id,
              departure_time |-> dep.dep,
              arrival_time |-> arr.arr,
              travel_time_minutes |-> CalculateTravelTime(dep.dep, arr.arr),
              distance_km |-> CalculateDistance(route_id, route_points, departure_point),
              stops_count |-> StopsCount(route_points),
              route_points |-> route_points,
              transfer_station |-> Null,
              waiting_time_minutes |-> Null]

\* _build_segment: one leg of a journey, or None; the DoesNotExist of a
\* missing Route row is caught and gives None as well.
BuildSegment(route_id, from_station_id, to_station_id) ==
    IF ~RouteExists(route_id) THEN None
    ELSE SegmentOfPoints(route_id, from_station_id, to_station_id,
                         FirstPoint(route_id, from_station_id),
                         FirstPoint(route_id, to_station_id))

AppendedSameDay(connection) ==
    IF connection = None THEN <<>>
    ELSE IF "segments" \notin DOMAIN connection THEN <<connection>>
    ELSE IF \E k \in 2 .. Len(connection.segments) :
                connection.segments[k].departure_time
                    < connection.segments[k - 1].arrival_time
         THEN <<>>
    ELSE <<connection>>

\* if connection: connections.append(connection)
Appended(connection) == IF connection # None THEN <<connection>> ELSE <<>>

\* --------------------------------------------------------- direct finder
BuildFirstConnection(common_route_ids, from_station_id, to_station_id) ==
    LET built == FlatMap([route_id \in Routes |->
                     IF route_id \notin common_route_ids THEN <<>>
                     ELSE Appended(BuildSingleConnection(route_id, from_station_id,
                                                         to_station_id))],
                     Range(1, NumRoutes))
    IN  IF built = <<>> THEN <<>> ELSE <<built[1]>>

\* _build_connections: one connection per common route that builds, in the
\* iteration order of the set of route ids.
BuildConnections(common_route_ids, from_station_id, to_station_id) ==
    FlatMap([route_id \in Routes |->
                IF route_id \notin common_route_ids THEN <<>>
                ELSE Appended(BuildSingleConnection(route_id, from_station_id,
                                                    to_station_id))],
            Range(1, NumRoutes))

\* -------------------------------------------------------- transfer finder
\* _build_connection_with_transfer once both segments are built.
ConnectionOfTwoSegments(first_segment, second_segment, from_station_id, transfer_station_id, to_station_id) ==
        IF first_segment = None THEN None
        ELSE IF second_segment = None THEN None
        ELSE LET t == CalculateTravelTime(first_segment.arrival_time,
                                          second_segment.departure_time)
                 waiting_time == IF t < 0 THEN t + DayMinutes ELSE t
                 second == [second_segment EXCEPT
                                !.transfer_station = transfer_station_id,
                                !.waiting_time_minutes = waiting_time]
             IN  [segments |-> <<first_segment, second>>,
                  total_travel_time_minutes |->
                      first_segment.travel_time_minutes + second.travel_time_minutes,
                  total_waiting_time_minutes |-> waiting_time,
                  total_distance_km |-> first_segment.distance_km + second.distance_km,
                  total_stops_count |-> first_segment.stops_count + second.stops_count,
                  transfers_count |-> 1,
                  departure_station |-> from_station_id,
                  arrival_station |-> to_station_id,
                  departure_time |-> first_segment.departure_time,
                  arrival_time |-> second.arrival_time]

\* _build_connection_with_transfer: a two-leg connection, or None; each
\* segment is built once and the connection is made of the two results.
BuildConnectionWithTransfer(first_route_id, second_route_id, from_station_id, transfer_station_id, to_station_id) ==
    IF ~StationExists(transfer_station_id) THEN None
    ELSE CHOOSE connection \in
             {ConnectionOfTwoSegments(first_segment, second_segment,
                                      from_station_id, transfer_station_id, to_station_id) :
                  first_segment \in
                      {BuildSegment(first_route_id, from_station_id, transfer_station_id)},
                  second_segment \in
                      {BuildSegment(second_route_id, transfer_station_id, to_station_id)}} :
             TRUE

FirstWaitingOnly(first_waiting_time, second_waiting_time) == first_waiting_time

\* total_waiting_time = first_waiting_time + second_waiting_time
TotalWaitingTime(first_waiting_time, second_waiting_time) ==
    first_waiting_time + second_waiting_time

\* _build_connection_with_two_transfers once the three segments are built.
ConnectionOfThreeSegments(first_segment, second_segment, third_segment, from_station_id, first_transfer_id, second_transfer_id, to_station_id) ==
        IF first_segment = None THEN None
        ELSE IF second_segment = None THEN None
        ELSE IF third_segment = None THEN None
        ELSE LET t1 == CalculateTravelTime(first_segment.arrival_time,
                                           second_segment.departure_time)
                 first_waiting_time == IF t1 < 0 THEN t1 + DayMinutes ELSE t1
                 t2 == CalculateTravelTime(second_segment.arrival_time,
                                           third_segment.departure_time)
                 second_waiting_time == IF t2 < 0 THEN t2 + DayMinutes ELSE t2
                 second == [second_segment EXCEPT
                                !.transfer_station = first_transfer_id,
                                !.waiting_time_minutes = first_waiting_time]
                 third == [third_segment EXCEPT
                               !.transfer_station = second_transfer_id,
                               !.waiting_time_minutes = second_waiting_time]
             IN  [segments |-> <<first_segment, second, third>>,
                  total_travel_time_minutes |->
                      first_segment.travel_time_minutes + second.travel_time_minutes
                          + third.travel_time_minutes,
                  total_waiting_time_minutes |->
                      TotalWaitingTime(first_waiting_time, second_waiting_time),
                  total_distance_km |->
                      first_segment.distance_km + second.distance_km + third.distance_km,
                  total_stops_count |->
                      first_segment.stops_count + second.stops_count + third.stops_count,
                  transfers_count |-> 2,
                  departure_station |-> from_station_id,
                  arrival_station |-> to_station_id,
                  departure_time |-> first_segment.departure_time,
                  arrival_time |-> third.arrival_time]

\* _build_connection_with_two_transfers: a three-leg connection, or None;
\* each segment is built once.
BuildConnectionWithTwoTransfers(first_route_id, second_route_id, third_route_id, from_station_id, first_transfer_id, second_transfer_id, to_station_id) ==
    IF ~StationExists(first_transfer_id) \/ ~StationExists(second_transfer_id) THEN None
    ELSE CHOOSE connection \in
             {ConnectionOfThreeSegments(first_segment, second_segment, third_segment,
                                        from_station_id, first_transfer_id,
                                        second_transfer_id, to_station_id) :
                  first_segment \in
                      {BuildSegment(first_route_id, from_station_id, first_transfer_id)},
                  second_segment \in
                      {BuildSegment(second_route_id, first_transfer_id, second_transfer_id)},
                  third_segment \in
                      {BuildSegment(third_route_id, second_transfer_id, to_station_id)}} :
             TRUE

PointsAfterNext(route_id, sequence) == Range(sequence + 2, Len(PointsOf(route_id)))

\* The rows of a route after a sequence number, ascending.
PointsAfter(route_id, sequence) == Range(sequence + 1, Len(PointsOf(route_id)))

\* _find_connections_via_one_transfer
FindConnectionsViaOneTransfer(from_station_id, to_station_id) ==
    LET routes_from_start == RouteIdsAt(from_station_id)
        routes_to_end == RouteIdsAt(to_station_id)
    IN  FlatMap([first_route_id \in Routes |->
          LET start_point == FirstPoint(first_route_id, from_station_id)
          IN  IF start_point = Null THEN <<>>
              ELSE FlatMap([intermediate_point \in SequenceNumbers |->
                LET intermediate_station_id ==
                        PointsOf(first_route_id)[intermediate_point].station
                IN  FlatMap([second_route_id \in Routes |->
                      IF second_route_id = first_route_id THEN <<>>
                      ELSE LET intermediate_on_second ==
                                   FirstPoint(second_route_id, intermediate_station_id)
                               end_point == FirstPoint(second_route_id, to_station_id)
                           IN  IF intermediate_on_second # Null /\ end_point # Null
                                  /\ intermediate_on_second < end_point
                               THEN Appended(BuildConnectionWithTransfer(
                                        first_route_id, second_route_id, from_station_id,
                                        intermediate_station_id, to_station_id))
                               ELSE <<>>],
                      routes_to_end)],
                PointsAfter(first_route_id, start_point))],
          routes_from_start)

RouteIdsAtAll(s, excluded) == RouteIdsAt(s)

\* RoutePoint.objects.filter(station_id=s).exclude(route_id__in=excluded)
\*     .values_list('route_id', flat=True)
RouteIdsAtExcluding(s, excluded) ==
    FlatMap([r \in Routes |-> IF r \in excluded THEN <<>> ELSE <<r>>], RouteIdsAt(s))

\* _find_connections_via_two_transfers
FindConnectionsViaTwoTransfers(from_station_id, to_station_id) ==
    LET routes_from_start == RouteIdsAt(from_station_id)
    IN  FlatMap([first_route_id \in Routes |->
          LET start_point == FirstPoint(first_route_id, from_station_id)
          IN  IF start_point = Null THEN <<>>
              ELSE FlatMap([first_intermediate_point \in SequenceNumbers |->
                LET first_transfer_id ==
                        PointsOf(first_route_id)[first_intermediate_point].station
                    second_routes == RouteIdsAtExcluding(first_transfer_id, {first_route_id})
                IN  FlatMap([second_route_id \in Routes |->
                      LET first_transfer_on_second ==
                              FirstPoint(second_route_id, first_transfer_id)
                      IN  IF first_transfer_on_second = Null THEN <<>>
                          ELSE FlatMap([second_intermediate_point \in SequenceNumbers |->
                            LET second_transfer_id ==
                                    PointsOf(second_route_id)[second_intermediate_point].station
                                third_routes == RouteIdsAtExcluding(
                                    second_transfer_id, {first_route_id, second_route_id})
                            IN  IF second_transfer_id = to_station_id THEN <<>>
                                ELSE FlatMap([third_route_id \in Routes |->
                                  LET second_transfer_on_third ==
                                          FirstPoint(third_route_id, second_transfer_id)
                                      end_point == FirstPoint(third_route_id, to_station_id)
                                  IN  IF second_transfer_on_third # Null /\ end_point # Null
                                         /\ second_transfer_on_third < end_point
                                      THEN Appended(BuildConnectionWithTwoTransfers(
                                               first_route_id, second_route_id,
                                               third_route_id, from_station_id,
                                               first_transfer_id, second_transfer_id,
                                               to_station_id))
                                      ELSE <<>>],
                                  third_routes)],
                            PointsAfter(second_route_id, first_transfer_on_second))],
                      second_routes)],
                PointsAfter(first_route_id, start_point))],
          routes_from_start)

\* _find_connections_with_n_transfers
FindConnectionsWithNTransfers(from_station_id, to_station_id, num_transfers) ==
    IF num_transfers = 1 THEN FindConnectionsViaOneTransfer(from_station_id, to_station_id)
    ELSE IF num_transfers = 2
         THEN FindConnectionsViaTwoTransfers(from_station_id, to_station_id)
    ELSE <<>>

\* get calls _find_connections_with_transfers with max_transfers=2.
MaxTransfers == 2

FindMostTransfersFirst(from_station_id, to_station_id, max_transfers) ==
    FlatMap([num_transfers \in 1 .. max_transfers |->
                FindConnectionsWithNTransfers(from_station_id, to_station_id,
                                              max_transfers + 1 - num_transfers)],
            Range(1, max_transfers))

\* _find_connections_with_transfers: for num_transfers in 1 .. max_transfers,
\* the list extended by the connections with that many transfers.
FindConnectionsWithTransfers(from_station_id, to_station_id, max_transfers) ==
    FlatMap([num_transfers \in 1 .. max_transfers |->
                FindConnectionsWithNTransfers(from_station_id, to_station_id, num_transfers)],
            Range(1, max_transfers))

\* ------------------------------------------------------------- the request
\* A query parameter is a text, here the sequence of its characters: a digit
\* is its value 0..9, Minus is the sign "-" and Letter is a character that
\* int() accepts nowhere.  Absent is what query_params.get returns for a
\* parameter the request does not carry.
Letter == 10
Minus == 11
Absent == <<Null>>
Digits == 0 .. 9

\* `not value` of a query parameter: None or the empty text.
IsFalsy(text) == text = Absent \/ text = <<>>

\* One or more digits.
IsDigits(text) == text # <<>> /\ \A i \in 1 .. Len(text) : text[i] \in Digits

\* int(text) does not raise ValueError: digits, after a sign or not.
IsIntText(text) ==
    IF text # <<>> /\ Head(text) = Minus THEN IsDigits(Tail(text)) ELSE IsDigits(text)

\* The value of a text of digits, base ten.
RECURSIVE ParseDigits(_)
ParseDigits(text) ==
    IF text = <<>> THEN 0
    ELSE 10 * ParseDigits(SubSeq(text, 1, Len(text) - 1)) + text[Len(text)]

\* int(text)
ParseInt(text) ==
    IF text # <<>> /\ Head(text) = Minus THEN 0 - ParseDigits(Tail(text))
    ELSE ParseDigits(text)

ValidateRequiredOnly(from_text, to_text) ==
    IF IsFalsy(from_text) \/ IsFalsy(to_text)
    THEN [status |-> HTTP_400_BAD_REQUEST,
          error |-> "Both from_station and to_station parameters are required"]
    ELSE None

\* _validate_parameters: the 400 response, or None.
ValidateParameters(from_text, to_text) ==
    IF IsFalsy(from_text) \/ IsFalsy(to_text)
    THEN [status |-> HTTP_400_BAD_REQUEST,
          error |-> "Both from_station and to_station parameters are required"]
    ELSE IF ~IsIntText(from_text) \/ ~IsIntText(to_text)
    THEN [status |-> HTTP_400_BAD_REQUEST, error |-> "Station IDs must be integers"]
    ELSE None

GetStationsFromOnly(from_station_id, to_station_id) ==
    IF StationExists(from_station_id) THEN None
    ELSE [status |-> HTTP_404_NOT_FOUND, error |-> "One or both stations not found"]

\* _get_stations: the 404 response, or None when both rows exist.
GetStations(from_station_id, to_station_id) ==
    IF StationExists(from_station_id) /\ StationExists(to_station_id) THEN None
    ELSE [status |-> HTTP_404_NOT_FOUND, error |-> "One or both stations not found"]

NotFoundResponse(message) ==
    [status |-> HTTP_404_NOT_FOUND, connections |-> <<>>, count |-> 0, message |-> message]

\* _empty_response
EmptyResponse(message) ==
    [status |-> HTTP_200_OK, connections |-> <<>>, count |-> 0, message |-> message]

\* A list with the sort key of each item in front of it.
WithKeys(keys, connections) ==
    [i \in 1 .. Len(connections) |-> <<keys[i], connections[i]>>]

TravelTimeKey(connection) == connection.travel_time_minutes

TotalTimeKey(connection) ==
    connection.total_travel_time_minutes + connection.total_waiting_time_minutes

CountDistinct(connections) == Cardinality(SeqToSet(connections))

\* 'count': len(connections)
CountOf(connections) == Len(connections)

NeverTruthy(connections) == FALSE

HasSeveralConnections(connections) == Len(connections) > 1

\* `if connections:` in get
HasConnections(connections) == connections # <<>>

\* connections.sort(key=lambda x: x['travel_time_minutes'])
SortDirect(connections) ==
    Items(SortByKey(WithKeys(
        [i \in 1 .. Len(connections) |-> TravelTimeKey(connections[i])], connections)))

SortTransfersByTravelTime(connections) ==
    Items(SortByKey(WithKeys(
        [i \in 1 .. Len(connections) |-> connections[i].total_travel_time_minutes],
        connections)))

\* connections_with_transfers.sort(key=travel + waiting)
SortTransfers(connections) ==
    Items(SortByKey(WithKeys(
        [i \in 1 .. Len(connections) |-> TotalTimeKey(connections[i])], connections)))

\* ConnectionSearchView.get: the response and the methods it called, in order.
\* get when no direct connection was built: the connections with transfers,
\* sorted, or the empty response.  calls are the methods invoked so far.
TransferSearch(connections_with_transfers, calls) ==
    IF connections_with_transfers # <<>>
    THEN [response |-> [status |-> HTTP_200_OK,
                        direct_connections |-> <<>>,
                        connections_with_transfers |->
                            SortTransfers(connections_with_transfers),
                        count |-> CountOf(connections_with_transfers),
                        message |-> "Found {count} connection(s) with transfers"],
          invoked |-> calls]
    ELSE [response |-> EmptyResponse("No connections found between these stations"),
          invoked |-> calls \o <<"_empty_response">>]

\* ConnectionSearchView.get
Get(from_text, to_text) ==
    LET validation_result == ValidateParameters(from_text, to_text)
        from_station_id == ParseInt(from_text)
        to_station_id == ParseInt(to_text)
        stations_result == GetStations(from_station_id, to_station_id)
        common_route_ids == FindCommonRoutes(from_station_id, to_station_id)
        connections == IF common_route_ids # {}
                       THEN BuildConnections(common_route_ids, from_station_id, to_station_id)
                       ELSE <<>>
        direct_calls == <<"_validate_parameters", "_get_stations", "_find_common_routes">>
                            \o (IF common_route_ids # {} THEN <<"_build_connections">> ELSE <<>>)
        transfer_calls == <<"_find_connections_with_transfers",
                            "_find_connections_via_one_transfer",
                            "_find_connections_via_two_transfers">>
    IN  IF validation_result # None
        THEN [response |-> validation_result, invoked |-> <<"_validate_parameters">>]
        ELSE IF stations_result # None
        THEN [response |-> stations_result,
              invoked |-> <<"_validate_parameters", "_get_stations">>]
        ELSE IF common_route_ids # {} /\ HasConnections(connections)
        THEN [response |-> [status |-> HTTP_200_OK,
                            direct_connections |-> SortDirect(connections),
                            connections_with_transfers |-> <<>>,
                            count |-> CountOf(connections),
                            message |-> "Direct connections found successfully"],
              invoked |-> direct_calls]
        ELSE TransferSearch(
                 FindConnectionsWithTransfers(from_station_id, to_station_id, MaxTransfers),
                 direct_calls \o transfer_calls)

\* ------------------------------------------------------------ the schedule
\* The timetable the rows are created with (create_test_routes.py sets a
\* departure of the first stop, an arrival and a departure of each later stop
\* and the distance from the previous stop).  First departures by route:
\* 08:00:00, 23:10:30, 14:21:00, ...; a ride takes 50.5 minutes plus ten
\* minutes per route number, a stop five minutes.
FirstDeparture(r) == (28800 + (r - 1) * 54630) % DaySeconds
RideSeconds(r) == 3030 + 600 * (r - 1)
DwellSeconds == 300

ScheduledArrival(r, sequence) ==
    IF sequence = 1 THEN FirstDeparture(r)
    ELSE (FirstDeparture(r) + (sequence - 1) * (RideSeconds(r) + DwellSeconds)
              - DwellSeconds) % DaySeconds

ScheduledDeparture(r, sequence) ==
    (FirstDeparture(r) + (sequence - 1) * (RideSeconds(r) + DwellSeconds)) % DaySeconds

\* distance_from_previous_km: NULL at the first stop of a route.
DistanceFromPrevious(r, sequence) == IF sequence = 1 THEN Null ELSE 40 * r + 10 * sequence

\* distance_from_previous_km values a row may carry (NULL or whole km).
DistSamples == {Null, 7, 90}

\* Times of day, in seconds since midnight.
TimeSamples == {0, 30, 59, 60, 3600, 43200, 43230, 86340, 86399}

TotalPoints == LET RECURSIVE Count(_)
                   Count(r) == IF r = 0 THEN 0 ELSE Len(routePoints[r]) + Count(r - 1)
               IN  Count(NumRoutes)

\* The stations of all rows, route by route in sequence order.
StationScan(points) ==
    FlatMap([r \in Routes |-> [i \in 1 .. Len(points[r]) |-> points[r][i].station]],
            Range(1, NumRoutes))

\* Station ids are opaque keys that the search only compares for equality, so
\* the timetables are enumerated up to a renaming of the stations: in the
\* scan, a station id appears for the first time after all smaller ids.
RECURSIVE InOrderOfAppearance(_, _)
InOrderOfAppearance(scan, seen) ==
    IF scan = <<>> THEN TRUE
    ELSE IF Head(scan) > seen + 1 THEN FALSE
    ELSE InOrderOfAppearance(Tail(scan), IF Head(scan) > seen THEN Head(scan) ELSE seen)

\* The table with one more stop of station s on route r.
WithPoint(r, s) ==
    LET sequence == Len(routePoints[r]) + 1
    IN  [routePoints EXCEPT ![r] = Append(@,
            [station |-> s,
             arr |-> ScheduledArrival(r, sequence),
             dep |-> ScheduledDeparture(r, sequence),
             dist |-> DistanceFromPrevious(r, sequence)])]

\* ---------------------------------------------------------------- actions
PreviousFrame(w) == frame[w]

\* The local variables of a call of get on thread w: created with the call.
NewFrame(w) ==
    [from_station_id |-> Null, to_station_id |-> Null, todo |-> <<>>,
     connections |-> <<>>, all_connections |-> <<>>]

Init ==
    /\ routePoints = [r \in Routes |-> <<>>]
    /\ request = <<>>
    /\ response = None
    /\ invoked = <<>>
    /\ depTime = 0
    /\ arrTime = 0
    /\ travel = Null
    /\ leg = None
    /\ legQuery = <<>>
    /\ routeRows = {}
    /\ pc = [w \in Workers |-> "idle"]
    /\ req = [w \in Workers |-> <<>>]
    /\ frame = [w \in Workers |->
                   [from_station_id |-> Null, to_station_id |-> Null, todo |-> <<>>,
                    connections |-> <<>>, all_connections |-> <<>>]]
    /\ result = [w \in Workers |-> None]
    /\ dirty = [w \in Workers |-> FALSE]
    /\ journeys = <<>>

\* RoutePoint.objects.get_or_create(route, station, sequence, defaults=...):
\* the next stop of a route.
AddRoutePoint(r, s) ==
    /\ request = <<>>
    /\ Len(routePoints[r]) < MaxStops
    /\ TotalPoints < MaxPoints
    /\ InOrderOfAppearance(StationScan(WithPoint(r, s)), 0) = TRUE
    /\ routePoints' = WithPoint(r, s)
    /\ routeRows' = routeRows \cup {r}
    /\ UNCHANGED <<journeys, request, response, invoked, timeVars, legVars, threadVars>>

\* GET /connections/search?from_station=..&to_station=..
Search(from_text, to_text) ==
    /\ request = <<>>
    /\ request' = <<from_text, to_text>>
    /\ \E run \in {Get(from_text, to_text)} :
           /\ response' = run.response
           /\ invoked' = run.invoked
    /\ UNCHANGED <<journeys, routePoints, routeRows, timeVars, legVars, threadVars>>

\* The response is sent; the view keeps nothing of the request.
ReturnResponse ==
    /\ request # <<>>
    /\ request' = <<>>
    /\ response' = None
    /\ invoked' = <<>>
    /\ UNCHANGED <<journeys, routePoints, routeRows, timeVars, legVars, threadVars>>

\* The texts a client sends as a station id: the ids of the stations and one
\* id that is no station.
IdTexts == {<<k>> : k \in 1 .. UnknownId}

Next ==
    \/ \E r \in Routes, s \in Stations : AddRoutePoint(r, s)
    \/ \E from_text \in IdTexts, to_text \in IdTexts : Search(from_text, to_text)
    \/ ReturnResponse

Spec == Init /\ [][Next]_vars

\* ---------------------------------------- travel time of a pair of times
PickTimes(d, a) ==
    /\ depTime' = d
    /\ arrTime' = a
    /\ travel' = Null
    /\ UNCHANGED <<journeys, searchVars, routeRows, legVars, threadVars>>

\* _calculate_travel_time(departure_time, arrival_time)
CalcTravel ==
    /\ travel = Null
    /\ travel' = CalculateTravelTime(depTime, arrTime)
    /\ UNCHANGED <<journeys, depTime, arrTime, searchVars, routeRows, legVars, threadVars>>

NextTime ==
    \/ \E d \in TimeSamples, a \in TimeSamples : PickTimes(d, a)
    \/ CalcTravel

SpecTime == Init /\ [][NextTime]_vars

\* ------------------------------------------------ legs of a single route
\* A further stop of route 1 with any distance from the previous stop.
AddFreePoint(s, d) ==
    /\ Len(routePoints[1]) < MaxLegStops
    /\ InOrderOfAppearance(StationScan(WithPoint(1, s)), 0) = TRUE
    /\ routePoints' = [routePoints EXCEPT ![1] = Append(@,
           [station |-> s,
            arr |-> ScheduledArrival(1, Len(routePoints[1]) + 1),
            dep |-> ScheduledDeparture(1, Len(routePoints[1]) + 1),
            dist |-> d])]
    /\ leg' = None
    /\ legQuery' = <<>>
    /\ routeRows' = routeRows \cup {1}
    /\ UNCHANGED <<journeys, request, response, invoked, timeVars, threadVars>>

\* _build_segment(route 1, a, c)
MeasureLeg(a, c) ==
    /\ legQuery' = <<a, c>>
    /\ leg' = BuildSegment(1, a, c)
    /\ UNCHANGED <<journeys, searchVars, routeRows, timeVars, threadVars>>

NextRoute ==
    \/ \E s \in Stations, d \in DistSamples : AddFreePoint(s, d)
    \/ \E a \in Stations, c \in Stations : MeasureLeg(a, c)

SpecRoute == Init /\ [][NextRoute]_vars

\* ------------------------------------------- the test routes and any text
\* The stations create_test_routes.py looks up by name.
Warszawa == 1
Katowice == 2
Krakow == 3
Gdansk == 4

\* datetime.time(hour, minute), in seconds since midnight.
Clock(hour, minute) == hour * 3600 + minute * MinuteSeconds

\* A row as get_or_create stores it.
TestPoint(s, arrival, departure, km) ==
    [station |-> s, arr |-> arrival, dep |-> departure, dist |-> km]

\* The rows of IC 1001, IC 1002 and IC 2001 (IC 3001 starts in Poznan, which
\* no search between these four stations can board).
TestRoute(k) ==
    IF k = 1
    THEN <<TestPoint(Warszawa, Clock(8, 0), Clock(8, 0), 0),
           TestPoint(Katowice, Clock(10, 30), Clock(10, 35), 280),
           TestPoint(Krakow, Clock(11, 30), Clock(11, 30), 90)>>
    ELSE IF k = 2
    THEN <<TestPoint(Krakow, Clock(14, 0), Clock(14, 0), 0),
           TestPoint(Katowice, Clock(15, 0), Clock(15, 5), 90),
           TestPoint(Warszawa, Clock(17, 30), Clock(17, 30), 280)>>
    ELSE <<TestPoint(Warszawa, Clock(9, 0), Clock(9, 0), 0),
           TestPoint(Gdansk, Clock(12, 30), Clock(12, 30), 340)>>

TestRouteIds == 1 .. 3

\* create_test_routes: the rows of one of its routes.
CreateTestRoute(k) ==
    /\ request = <<>>
    /\ routePoints[k] = <<>>
    /\ routePoints' = [routePoints EXCEPT ![k] = TestRoute(k)]
    /\ routeRows' = routeRows \cup {k}
    /\ UNCHANGED <<journeys, request, response, invoked, timeVars, legVars, threadVars>>

\* The characters of the texts a client sends.
TextChars == {0, 1, 3, Letter, Minus}

RECURSIVE TextsOfLength(_)
TextsOfLength(n) ==
    IF n = 0 THEN {<<>>}
    ELSE {Append(text, c) : text \in TextsOfLength(n - 1), c \in TextChars}

\* Every value of a query parameter: absent, or a text of up to MaxTextLen
\* characters.
RequestTexts == {Absent} \cup UNION {TextsOfLength(n) : n \in 0 .. MaxTextLen}

NextTest ==
    \/ \E k \in TestRouteIds : CreateTestRoute(k)
    \/ \E from_text \in RequestTexts, to_text \in RequestTexts : Search(from_text, to_text)
    \/ ReturnResponse

SpecTest == Init /\ [][NextTest]_vars

\* ------------------------------------- two routes that meet, at any times
\* A further stop of route r at a free time of day: route 1 runs from
\* station 1 to station 2, route 2 from station 2 to station 3.
AddTimedPoint(r, t) ==
    /\ request = <<>>
    /\ Len(routePoints[r]) < 2
    /\ routePoints' = [routePoints EXCEPT ![r] = Append(@,
           [station |-> r + Len(routePoints[r]),
            arr |-> t,
            dep |-> t,
            dist |-> DistanceFromPrevious(r, Len(routePoints[r]) + 1)])]
    /\ routeRows' = routeRows \cup {r}
    /\ UNCHANGED <<journeys, request, response, invoked, timeVars, legVars, threadVars>>

\* The ids the clients ask for on the two routes.
WaitTexts == {<<1>>, <<2>>, <<3>>}

NextWait ==
    \/ \E r \in 1 .. 2, t \in TimeSamples : AddTimedPoint(r, t)
    \/ \E from_text \in WaitTexts, to_text \in WaitTexts : Search(from_text, to_text)
    \/ ReturnResponse

SpecWait == Init /\ [][NextWait]_vars

\* ------------------------------------------- the journeys of the routes
\* The journeys create_test_routes creates run on several days at several
\* times of day; the k-th row of the table is given a date, a status and a
\* time of day, and no two rows the same scheduled departure.
JourneyDates == <<0, 0, -1, 1, 0, 0, 0, 1>>
JourneyStatuses ==
    <<"SCHEDULED", "DELAYED", "SCHEDULED", "BOARDING", "CANCELLED", "SCHEDULED",
      "BOARDING", "SCHEDULED">>

JourneyDate(k) == JourneyDates[((k - 1) % Len(JourneyDates)) + 1]
JourneyStatus(k) == JourneyStatuses[((k - 1) % Len(JourneyStatuses)) + 1]

\* datetime.combine(journey_date, departure_time)
JourneyDeparture(k) == JourneyDate(k) * DaySeconds + Clock(5 + ((k * 5) % 9), 30)

\* The routes that run journeys.
JourneyRoutes == 1 .. 2

\* Journey.objects.get_or_create(route=..., journey_date=...,
\* scheduled_departure=...), its status as JourneyAdmin may set it: the next
\* row of the table.
CreateJourney(r) ==
    /\ request = <<>>
    /\ Len(journeys) < MaxJourneys
    /\ RouteExists(r)
    /\ journeys' = Append(journeys,
           [route |-> r, journey_date |-> JourneyDate(Len(journeys) + 1),
            status |-> JourneyStatus(Len(journeys) + 1),
            scheduled_departure |-> JourneyDeparture(Len(journeys) + 1)])
    /\ UNCHANGED <<searchVars, routeRows, timeVars, legVars, threadVars>>

\* The ids the clients ask for while the journeys are looked at.
JourneyTexts == {<<1>>, <<2>>}

NextJourney ==
    \/ \E r \in JourneyRoutes : AddRoutePoint(r, Len(routePoints[r]) + 1)
    \/ \E r \in JourneyRoutes : CreateJourney(r)
    \/ \E from_text \in JourneyTexts, to_text \in JourneyTexts : Search(from_text, to_text)
    \/ ReturnResponse

SpecJourney == Init /\ [][NextJourney]_vars

\* ------------------------------------- searches step by step, on threads
\* The (first route, transfer station, second route) for which
\* _find_connections_via_one_transfer calls the builder, in loop order.
OneTransferCandidates(from_station_id, to_station_id) ==
    LET routes_from_start == RouteIdsAt(from_station_id)
        routes_to_end == RouteIdsAt(to_station_id)
    IN  FlatMap([first_route_id \in Routes |->
          LET start_point == FirstPoint(first_route_id, from_station_id)
          IN  IF start_point = Null THEN <<>>
              ELSE FlatMap([intermediate_point \in SequenceNumbers |->
                LET intermediate_station_id ==
                        PointsOf(first_route_id)[intermediate_point].station
                IN  FlatMap([second_route_id \in Routes |->
                      IF second_route_id = first_route_id THEN <<>>
                      ELSE LET intermediate_on_second ==
                                   FirstPoint(second_route_id, intermediate_station_id)
                               end_point == FirstPoint(second_route_id, to_station_id)
                           IN  IF intermediate_on_second # Null /\ end_point # Null
                                  /\ intermediate_on_second < end_point
                               THEN <<<<first_route_id, intermediate_station_id,
                                        second_route_id>>>>
                               ELSE <<>>],
                      routes_to_end)],
                PointsAfter(first_route_id, start_point))],
          routes_from_start)

\* The (first route, first transfer, second route, second transfer, third
\* route) for which _find_connections_via_two_transfers calls the builder.
TwoTransferCandidates(from_station_id, to_station_id) ==
    LET routes_from_start == RouteIdsAt(from_station_id)
    IN  FlatMap([first_route_id \in Routes |->
          LET start_point == FirstPoint(first_route_id, from_station_id)
          IN  IF start_point = Null THEN <<>>
              ELSE FlatMap([first_intermediate_point \in SequenceNumbers |->
                LET first_transfer_id ==
                        PointsOf(first_route_id)[first_intermediate_point].station
                    second_routes == RouteIdsAtExcluding(first_transfer_id, {first_route_id})
                IN  FlatMap([second_route_id \in Routes |->
                      LET first_transfer_on_second ==
                              FirstPoint(second_route_id, first_transfer_id)
                      IN  IF first_transfer_on_second = Null THEN <<>>
                          ELSE FlatMap([second_intermediate_point \in SequenceNumbers |->
                            LET second_transfer_id ==
                                    PointsOf(second_route_id)[second_intermediate_point].station
                                third_routes == RouteIdsAtExcluding(
                                    second_transfer_id, {first_route_id, second_route_id})
                            IN  IF second_transfer_id = to_station_id THEN <<>>
                                ELSE FlatMap([third_route_id \in Routes |->
                                  LET second_transfer_on_third ==
                                          FirstPoint(third_route_id, second_transfer_id)
                                      end_point == FirstPoint(third_route_id, to_station_id)
                                  IN  IF second_transfer_on_third # Null /\ end_point # Null
                                         /\ second_transfer_on_third < end_point
                                      THEN <<<<first_route_id, first_transfer_id,
                                               second_route_id, second_transfer_id,
                                               third_route_id>>>>
                                      ELSE <<>>],
                                  third_routes)],
                            PointsAfter(second_route_id, first_transfer_on_second))],
                      second_routes)],
                PointsAfter(first_route_id, start_point))],
          routes_from_start)

\* An exception that leaves get: the request ends without a response of the view.
Raised(exception) == [raised |-> exception]

NeverExhausted(todo) == FALSE

\* A for loop ends when its iterable has no further element.
Exhausted(todo) == todo = <<>>

\* The ids of a set of routes in the order the loop of _build_connections
\* takes them.
IdsInOrder(route_ids) ==
    FlatMap([r \in Routes |-> IF r \in route_ids THEN <<r>> ELSE <<>>], Range(1, NumRoutes))

ReturnShared(w, resp) ==
    /\ result' = [v \in Workers |-> resp]
    /\ pc' = [pc EXCEPT ![w] = "done"]

\* return: thread w answers and its call of get is over.
Return(w, resp) ==
    /\ result' = [result EXCEPT ![w] = resp]
    /\ pc' = [pc EXCEPT ![w] = "done"]

\* get, lines 79-93: the request reaches a thread, which validates the
\* parameters, looks the stations up and finds the common routes;
\* `if common_route_ids:` enters the loop of _build_connections.
Receive(w, from_text, to_text) ==
    /\ pc[w] \in {"idle", "done"}
    /\ req' = [req EXCEPT ![w] = <<from_text, to_text>>]
    /\ dirty' = [dirty EXCEPT ![w] = FALSE]
    /\ \E validation_result \in {ValidateParameters(from_text, to_text)} :
           IF validation_result # None
           THEN /\ Return(w, validation_result)
                /\ frame' = [frame EXCEPT ![w] = NewFrame(w)]
           ELSE \E stations_result \in {GetStations(ParseInt(from_text), ParseInt(to_text))} :
                  IF stations_result # None
                  THEN /\ Return(w, stations_result)
                       /\ frame' = [frame EXCEPT ![w] = NewFrame(w)]
                  ELSE \E common_route_ids \in
                              {FindCommonRoutes(ParseInt(from_text), ParseInt(to_text))} :
                         /\ frame' = [frame EXCEPT ![w] =
                                [NewFrame(w) EXCEPT
                                     !.from_station_id = ParseInt(from_text),
                                     !.to_station_id = ParseInt(to_text),
                                     !.todo = IdsInOrder(common_route_ids)]]
                         /\ pc' = [pc EXCEPT ![w] =
                                IF common_route_ids # {} THEN "direct" ELSE "one"]
                         /\ result' = [result EXCEPT ![w] = None]
    /\ UNCHANGED <<journeys, searchVars, routeRows, timeVars, legVars>>

\* One turn of the loop of _build_connections: _build_single_connection of
\* the next route, whose Route.objects.get raises when the row is gone; after
\* the last route, `if connections:` answers with the direct connections.
BuildDirect(w) ==
    /\ pc[w] = "direct"
    /\ frame[w].todo # <<>>
    /\ LET route_id == Head(frame[w].todo)
       IN  IF ~RouteExists(route_id)
           THEN /\ Return(w, Raised("Route.DoesNotExist"))
                /\ UNCHANGED frame
           ELSE \E connections \in {frame[w].connections \o Appended(BuildSingleConnection(
                        route_id, frame[w].from_station_id, frame[w].to_station_id))} :
                  /\ frame' = [frame EXCEPT ![w].todo = Tail(@),
                                            ![w].connections = connections]
                  /\ IF Exhausted(Tail(frame[w].todo))
                     THEN IF HasConnections(connections)
                          THEN Return(w, [status |-> HTTP_200_OK,
                                          direct_connections |-> SortDirect(connections),
                                          connections_with_transfers |-> <<>>,
                                          count |-> CountOf(connections),
                                          message |-> "Direct connections found successfully"])
                          ELSE /\ pc' = [pc EXCEPT ![w] = "one"]
                               /\ UNCHANGED result
                     ELSE UNCHANGED <<pc, result>>
    /\ UNCHANGED <<journeys, searchVars, routeRows, timeVars, legVars, req, dirty>>

\* _find_connections_via_one_transfer reaches its calls of the builder.
EnumerateOneTransfer(w) ==
    /\ pc[w] = "one"
    /\ \E todo \in {OneTransferCandidates(frame[w].from_station_id,
                                           frame[w].to_station_id)} :
           /\ frame' = [frame EXCEPT ![w].todo = todo]
           /\ pc' = [pc EXCEPT ![w] = IF Exhausted(todo) THEN "two" ELSE "one_build"]
    /\ UNCHANGED <<journeys, searchVars, routeRows, timeVars, legVars, req, result, dirty>>

\* _build_connection_with_transfer of the next candidate; `if connection:`.
BuildOneTransfer(w) ==
    /\ pc[w] = "one_build"
    /\ frame[w].todo # <<>>
    /\ \E all_connections \in
           {frame[w].all_connections \o Appended(BuildConnectionWithTransfer(
                Head(frame[w].todo)[1], Head(frame[w].todo)[3], frame[w].from_station_id,
                Head(frame[w].todo)[2], frame[w].to_station_id))} :
           frame' = [frame EXCEPT ![w].todo = Tail(@),
                                  ![w].all_connections = all_connections]
    /\ pc' = [pc EXCEPT ![w] = IF Exhausted(Tail(frame[w].todo)) THEN "two" ELSE @]
    /\ UNCHANGED <<journeys, searchVars, routeRows, timeVars, legVars, req, result, dirty>>

\* get, lines 123-136: the connections with transfers, sorted, or the empty
\* response.
Respond(w, connections_with_transfers) ==
    Return(w, TransferSearch(connections_with_transfers, <<>>).response)

\* _find_connections_via_two_transfers reaches its calls of the builder, or
\* finds none and get answers.
EnumerateTwoTransfers(w) ==
    /\ pc[w] = "two"
    /\ \E todo \in {TwoTransferCandidates(frame[w].from_station_id,
                                           frame[w].to_station_id)} :
           /\ frame' = [frame EXCEPT ![w].todo = todo]
           /\ IF Exhausted(todo)
              THEN Respond(w, frame[w].all_connections)
              ELSE /\ pc' = [pc EXCEPT ![w] = "two_build"]
                   /\ UNCHANGED result
    /\ UNCHANGED <<journeys, searchVars, routeRows, timeVars, legVars, req, dirty>>

\* _build_connection_with_two_transfers of the next candidate; after the
\* last one get answers.
BuildTwoTransfers(w) ==
    /\ pc[w] = "two_build"
    /\ frame[w].todo # <<>>
    /\ \E all_connections \in
           {frame[w].all_connections \o Appended(BuildConnectionWithTwoTransfers(
                Head(frame[w].todo)[1], Head(frame[w].todo)[3], Head(frame[w].todo)[5],
                frame[w].from_station_id, Head(frame[w].todo)[2], Head(frame[w].todo)[4],
                frame[w].to_station_id))} :
           /\ frame' = [frame EXCEPT ![w].todo = Tail(@),
                                     ![w].all_connections = all_connections]
           /\ IF Exhausted(Tail(frame[w].todo))
              THEN Respond(w, all_connections)
              ELSE UNCHANGED <<pc, result>>
    /\ UNCHANGED <<journeys, searchVars, routeRows, timeVars, legVars, req, dirty>>

\* A step of the call of get on thread w.
Step(w) ==
    \/ BuildDirect(w)
    \/ EnumerateOneTransfer(w)
    \/ BuildOneTransfer(w)
    \/ EnumerateTwoTransfers(w)
    \/ BuildTwoTransfers(w)

\* A write to the tables reaches every call in progress and every answer
\* not yet replaced.
Touched == [w \in Workers |-> dirty[w] \/ pc[w] # "idle"]

\* route_schedules of create_test_routes: the first two departures of a day.
TestDepartures(k) ==
    IF k = 1 THEN <<Clock(5, 30), Clock(7, 0)>>
    ELSE IF k = 2 THEN <<Clock(6, 0), Clock(8, 15)>>
    ELSE <<Clock(5, 45), Clock(7, 30)>>

\* The journeys of route k on the first of the days the command creates.
TestJourneys(k) ==
    [i \in 1 .. 2 |->
        [route |-> k, journey_date |-> Today, status |-> "SCHEDULED",
         scheduled_departure |-> Today * DaySeconds + TestDepartures(k)[i]]]

\* create_test_routes creates a route, its stops and its journeys, one
\* route after the other; the command is run before the server takes
\* requests.
LoadRoute(k) ==
    /\ \A w \in Workers : pc[w] = "idle"
    /\ routeRows = 1 .. (k - 1)
    /\ routeRows' = routeRows \cup {k}
    /\ routePoints' = [routePoints EXCEPT ![k] = TestRoute(k)]
    /\ journeys' = journeys \o TestJourneys(k)
    /\ UNCHANGED <<request, response, invoked, timeVars, legVars, threadVars>>

\* RouteAdmin deletes a route; its stops and its journeys go with it
\* (on_delete=CASCADE).
DeleteRoute(k) ==
    /\ k \in routeRows
    /\ routeRows' = routeRows \ {k}
    /\ routePoints' = [routePoints EXCEPT ![k] = <<>>]
    /\ journeys' = FlatMap([j \in 1 .. Len(journeys) |->
                                IF journeys[j].route = k THEN <<>> ELSE <<journeys[j]>>],
                            Range(1, Len(journeys)))
    /\ dirty' = Touched
    /\ UNCHANGED <<request, response, invoked, timeVars, legVars, pc, req, frame, result>>

\* The ids the clients of the threads ask for: three of the stations of the
\* test routes and an id that is no station.
ServeTexts == {<<Warszawa>>, <<Katowice>>, <<Gdansk>>, <<UnknownId>>}

NextServe ==
    \/ \E k \in TestRouteIds : LoadRoute(k)
    \/ \E k \in TestRouteIds : DeleteRoute(k)
    \/ \E w \in Workers, from_text \in ServeTexts, to_text \in ServeTexts :
           Receive(w, from_text, to_text)
    \/ \E w \in Workers : Step(w)

SpecServe == Init /\ [][NextServe]_vars

\* One thread serves every request.
NextAlone ==
    \/ \E k \in TestRouteIds : LoadRoute(k)
    \/ \E k \in TestRouteIds : DeleteRoute(k)
    \/ \E from_text \in ServeTexts, to_text \in ServeTexts : Receive(1, from_text, to_text)
    \/ Step(1)

\* The thread is not held up for ever: it takes the step it has to take.
FairAlone == Init /\ [][NextAlone]_vars /\ WF_vars(Step(1))

\* ------------------------------------------------------------ the claims
\* The request in flight: both parameters passed validation.
RequestParsed ==
    /\ request # <<>>
    /\ ValidateParameters(request[1], request[2]) = None

ReqFrom == ParseInt(request[1])
ReqTo == ParseInt(request[2])

\* The request in flight names two existing stations.
RequestOfStations ==
    /\ RequestParsed
    /\ ReqFrom \in Stations
    /\ ReqTo \in Stations

\* The lists of a response; a response without the field carries no such list.
DirectOf(resp) ==
    IF "direct_connections" \in DOMAIN resp THEN resp.direct_connections ELSE <<>>

TransfersOf(resp) ==
    IF "connections_with_transfers" \in DOMAIN resp
    THEN resp.connections_with_transfers ELSE <<>>

\* The Direct Finder of a pair of stations.
FindDirect(from_station_id, to_station_id) ==
    BuildConnections(FindCommonRoutes(from_station_id, to_station_id),
                     from_station_id, to_station_id)

TransferMethods ==
    {"_find_connections_with_transfers", "_find_connections_via_one_transfer",
     "_find_connections_via_two_transfers"}

\* C1: when the Direct Finder yields a connection for the requested stations,
\* get calls neither transfer finder and answers with the direct connections
\* and an empty connections_with_transfers list.
C1_DirectSkipsTransfers ==
    RequestOfStations =>
        LET direct == FindDirect(ReqFrom, ReqTo)
        IN  direct # <<>> =>
                /\ SeqToSet(invoked) \cap TransferMethods = {}
                /\ response.status = HTTP_200_OK
                /\ "direct_connections" \in DOMAIN response
                /\ SeqToSet(response.direct_connections) = SeqToSet(direct)
                /\ Len(response.direct_connections) = Len(direct)
                /\ "connections_with_transfers" \in DOMAIN response
                /\ response.connections_with_transfers = <<>>

\* A direct connection was returned although a connection with transfers exists.
C1_Witness ==
    /\ RequestOfStations
    /\ DirectOf(response) # <<>>
    /\ FindConnectionsWithTransfers(ReqFrom, ReqTo, MaxTransfers) # <<>>

\* The first stop of station a on route r comes before the first stop of b.
StopsBefore(r, a, b) ==
    \E i \in 1 .. Len(routePoints[r]), j \in 1 .. Len(routePoints[r]) :
        /\ i < j
        /\ routePoints[r][i].station = a
        /\ routePoints[r][j].station = b
        /\ \A k \in 1 .. i - 1 : routePoints[r][k].station # a
        /\ \A k \in 1 .. j - 1 : routePoints[r][k].station # b

RoutesOfList(connections) == {connections[i].route : i \in 1 .. Len(connections)}

\* C2: the direct connections of a search from A to B include every route on
\* which A's stop comes before B's stop and no route on which B's stop comes
\* before A's (a station's stop being its first stop on the route).
C2_DirectionInvariant ==
    (RequestOfStations /\ response.status = HTTP_200_OK) =>
        \A r \in Routes :
            /\ StopsBefore(r, ReqFrom, ReqTo) => r \in RoutesOfList(DirectOf(response))
            /\ StopsBefore(r, ReqTo, ReqFrom) => r \notin RoutesOfList(DirectOf(response))

\* A search answered with the forward route while another route serves the
\* two stations in the opposite order.
C2_Witness ==
    /\ RequestOfStations
    /\ ReqFrom # ReqTo
    /\ \E r1 \in Routes, r2 \in Routes :
           /\ StopsBefore(r1, ReqFrom, ReqTo)
           /\ StopsBefore(r2, ReqTo, ReqFrom)
           /\ r1 \in RoutesOfList(DirectOf(response))
           /\ r2 \notin RoutesOfList(DirectOf(response))

\* Every segment of a response: direct connections and the legs of the
\* connections with transfers.
SegmentsOf(resp) ==
    SeqToSet(DirectOf(resp)) \cup
        UNION {SeqToSet(TransfersOf(resp)[i].segments) : i \in 1 .. Len(TransfersOf(resp))}

HasStop(r, s) == \E i \in 1 .. Len(routePoints[r]) : routePoints[r][i].station = s

\* The segment runs forward between stops of its two stations on its route.
ForwardSegment(seg) ==
    LET first == seg.route_points[1]
        last == seg.route_points[Len(seg.route_points)]
    IN  /\ Len(seg.route_points) >= 2
        /\ first < last
        /\ routePoints[seg.route][first].station = seg.departure_station
        /\ routePoints[seg.route][last].station = seg.arrival_station

\* C3: for the requested stations, _build_segment gives None on every route
\* that lacks a stop of either station or whose departure stop does not come
\* before the arrival stop; and every segment of the response runs forward
\* on its own route.
C3_SegmentsRunForward ==
    RequestOfStations =>
        /\ \A r \in Routes :
               (~HasStop(r, ReqFrom) \/ ~HasStop(r, ReqTo)
                    \/ ~StopsBefore(r, ReqFrom, ReqTo))
                   => BuildSegment(r, ReqFrom, ReqTo) = None
        /\ \A seg \in SegmentsOf(response) : ForwardSegment(seg)

\* A three-leg connection was returned while some route serves the requested
\* stations in the wrong direction only.
C3_Witness ==
    /\ RequestOfStations
    /\ ReqFrom # ReqTo
    /\ \E i \in 1 .. Len(TransfersOf(response)) : Len(TransfersOf(response)[i].segments) = 3
    /\ \E r \in Routes : HasStop(r, ReqFrom) /\ HasStop(r, ReqTo)

\* C4: the travel time of a pair of times of day is the whole minutes from the
\* departure to the arrival, the arrival taken on the next day when it is the
\* earlier time of day; it is never negative.
C4_TravelTimeNonNegative ==
    travel # Null =>
        /\ travel >= 0
        /\ travel < DayMinutes
        /\ LET raw == arrTime - depTime
               elapsed == IF raw < 0 THEN raw + DaySeconds ELSE raw
           IN  /\ travel * MinuteSeconds <= elapsed
               /\ elapsed < (travel + 1) * MinuteSeconds

\* A travel time was computed for an arrival earlier than the departure.
C4_Witness ==
    /\ travel # Null
    /\ arrTime < depTime
    /\ travel > 0

Legs(connection) == connection.segments

\* C5: in every returned connection with transfers each transfer has a
\* waiting time of at least 0 and the total waiting time is at least 0.
C5_WaitingNonNegative ==
    RequestOfStations =>
        \A i \in 1 .. Len(TransfersOf(response)) :
            LET c == TransfersOf(response)[i]
            IN  /\ c.total_waiting_time_minutes >= 0
                /\ \A k \in 2 .. Len(Legs(c)) : Legs(c)[k].waiting_time_minutes >= 0

\* A three-leg connection was returned in which the third leg departs earlier
\* in the day than the second arrives, and a two-leg one likewise.
C5_Witness ==
    /\ RequestOfStations
    /\ ReqFrom # ReqTo
    /\ \E i \in 1 .. Len(TransfersOf(response)) :
           LET c == TransfersOf(response)[i]
           IN  /\ Len(Legs(c)) = 3
               /\ \E k \in 2 .. 3 : Legs(c)[k].departure_time < Legs(c)[k - 1].arrival_time

\* C6: in every returned connection with transfers, each leg starts where the
\* previous one ends, the first leg starts at the requested origin, the last
\* ends at the requested destination, and no two legs use the same route.
C6_LegsChainOnDistinctRoutes ==
    RequestOfStations =>
        \A i \in 1 .. Len(TransfersOf(response)) :
            LET legs == Legs(TransfersOf(response)[i])
            IN  /\ Len(legs) \in {2, 3}
                /\ legs[1].departure_station = ReqFrom
                /\ legs[Len(legs)].arrival_station = ReqTo
                /\ \A k \in 1 .. Len(legs) - 1 :
                       legs[k].arrival_station = legs[k + 1].departure_station
                /\ \A k \in 1 .. Len(legs), m \in 1 .. Len(legs) :
                       k # m => legs[k].route # legs[m].route

\* A response carries a two-leg and a three-leg connection between two
\* different stations.
C6_Witness ==
    /\ RequestOfStations
    /\ ReqFrom # ReqTo
    /\ \E i \in 1 .. Len(TransfersOf(response)) : Len(Legs(TransfersOf(response)[i])) = 2
    /\ \E i \in 1 .. Len(TransfersOf(response)) : Len(Legs(TransfersOf(response)[i])) = 3

\* C7: direct_connections is in non-decreasing order of travel_time_minutes
\* and connections_with_transfers in non-decreasing order of total travel
\* time plus total waiting time.
C7_ResponsesSorted ==
    RequestOfStations =>
        /\ \A i \in 1 .. Len(DirectOf(response)) - 1 :
               DirectOf(response)[i].travel_time_minutes
                   <= DirectOf(response)[i + 1].travel_time_minutes
        /\ \A i \in 1 .. Len(TransfersOf(response)) - 1 :
               TotalTimeKey(TransfersOf(response)[i])
                   <= TotalTimeKey(TransfersOf(response)[i + 1])

\* A response whose connections with transfers were found in another order
\* than the one returned.
C7_Witness ==
    /\ RequestOfStations
    /\ ReqFrom # ReqTo
    /\ Len(TransfersOf(response)) >= 2
    /\ TransfersOf(response) # FindConnectionsWithTransfers(ReqFrom, ReqTo, MaxTransfers)
    /\ TotalTimeKey(TransfersOf(response)[1])
           < TotalTimeKey(TransfersOf(response)[Len(TransfersOf(response))])

\* C8 (as claimed): a search from a station to the same station returns no
\* direct connection and no connection with transfers, count 0.
C8_SameStationSearchEmpty ==
    (RequestOfStations /\ ReqFrom = ReqTo) =>
        /\ DirectOf(response) = <<>>
        /\ TransfersOf(response) = <<>>
        /\ response.count = 0

\* distance_from_previous_km of the stops after sequence lo up to sequence hi
\* of route 1, NULL counting as 0.
RECURSIVE KmBetween(_, _)
KmBetween(lo, hi) ==
    IF hi <= lo THEN 0
    ELSE (IF routePoints[1][hi].dist = Null THEN 0 ELSE routePoints[1][hi].dist)
             + KmBetween(lo, hi - 1)

\* C9: the distance of a segment is the sum of distance_from_previous over
\* the stops after the departure stop up to the arrival stop (NULL as 0), and
\* it is the sum of the distances of the two segments it splits into at any
\* station between its ends.
C9_DistanceAdditive ==
    leg # None =>
        /\ leg.distance_km =
               KmBetween(leg.route_points[1], leg.route_points[Len(leg.route_points)])
        /\ \A b \in Stations :
               LET ab == BuildSegment(1, legQuery[1], b)
                   bc == BuildSegment(1, b, legQuery[2])
               IN  (ab # None /\ bc # None) =>
                       leg.distance_km = ab.distance_km + bc.distance_km

\* A segment over a stop in between was measured on a route that carries a
\* NULL and two different distances on the way.
C9_Witness ==
    /\ leg # None
    /\ \E b \in Stations :
           /\ BuildSegment(1, legQuery[1], b) # None
           /\ BuildSegment(1, b, legQuery[2]) # None
           /\ BuildSegment(1, legQuery[1], b).distance_km > 0
           /\ BuildSegment(1, b, legQuery[2]).distance_km > 0
    /\ \E i \in 2 .. Len(leg.route_points) : routePoints[1][leg.route_points[i]].dist = Null
    /\ leg.distance_km > 0

TraversalMethods ==
    TransferMethods \cup {"_find_common_routes", "_build_connections"}

\* C10: a search whose origin or destination id is no station is answered
\* with 404 and calls neither the direct nor the transfer search.
C10_UnknownStationNotFound ==
    (RequestParsed /\ (ReqFrom \notin Stations \/ ReqTo \notin Stations)) =>
        /\ response.status = HTTP_404_NOT_FOUND
        /\ SeqToSet(invoked) \cap TraversalMethods = {}
        /\ DirectOf(response) = <<>>
        /\ TransfersOf(response) = <<>>

\* The destination alone is unknown and the origin has a stop.
C10_Witness ==
    /\ RequestParsed
    /\ ReqFrom \in Stations
    /\ ReqTo \notin Stations
    /\ \E r \in Routes : HasStop(r, ReqFrom)
    /\ response.status = HTTP_404_NOT_FOUND

\* The text is no integer: absent, empty, a character that is no digit
\* anywhere but a sign in front, or a sign alone.
NotAnInteger(text) ==
    \/ text = Absent
    \/ text = <<>>
    \/ text = <<Minus>>
    \/ \E i \in 1 .. Len(text) : text[i] = Letter
    \/ \E i \in 2 .. Len(text) : text[i] = Minus

\* C11: a request whose from_station or to_station is missing, empty or no
\* integer is answered with 400 by _validate_parameters alone, before any
\* station is looked up, so it is never answered with 404.
C11_MalformedRejected ==
    (request # <<>> /\ (NotAnInteger(request[1]) \/ NotAnInteger(request[2]))) =>
        /\ response.status = HTTP_400_BAD_REQUEST
        /\ response.status # HTTP_404_NOT_FOUND
        /\ invoked = <<"_validate_parameters">>

\* A request with an unknown-looking malformed destination is answered with 400.
C11_Witness ==
    /\ request = <<<<1>>, <<3, Letter>>>>
    /\ routePoints[1] # <<>>
    /\ response.status = HTTP_400_BAD_REQUEST
    /\ "_get_stations" \notin SeqToSet(invoked)

\* Neither the direct phase nor a transfer phase builds a connection.
NothingFound(from_station_id, to_station_id) ==
    /\ FindDirect(from_station_id, to_station_id) = <<>>
    /\ FindConnectionsViaOneTransfer(from_station_id, to_station_id) = <<>>
    /\ FindConnectionsViaTwoTransfers(from_station_id, to_station_id) = <<>>

C13_SuccessShape ==
    (request # <<>> /\ response.status = HTTP_200_OK) =>
        {"direct_connections", "connections_with_transfers", "count", "message"}
            \subseteq DOMAIN response

\* C14: with IC 1001 running Warszawa (08:00), Katowice (10:30/10:35, 280 km),
\* Krakow (11:30, 90 km), a search from Warszawa to Krakow is answered with
\* exactly one direct connection, of 210 minutes, 370 km and one stop in
\* between, and with no connection with transfers.
C14_WarszawaKrakowDirect ==
    (/\ RequestParsed
     /\ ReqFrom = Warszawa
     /\ ReqTo = Krakow
     /\ routePoints[1] = TestRoute(1)) =>
        /\ response.status = HTTP_200_OK
        /\ Len(response.direct_connections) = 1
        /\ response.direct_connections[1].route = 1
        /\ response.direct_connections[1].travel_time_minutes = 210
        /\ response.direct_connections[1].distance_km = 370
        /\ response.direct_connections[1].stops_count = 1
        /\ response.connections_with_transfers = <<>>
        /\ response.count = 1

\* The search from Warszawa to Krakow with all test routes created.
C14_Witness ==
    /\ request = <<<<1>>, <<3>>>>
    /\ \A k \in TestRouteIds : routePoints[k] = TestRoute(k)
    /\ Len(DirectOf(response)) = 1
    /\ DirectOf(response)[1].departure_time = Clock(8, 0)
    /\ DirectOf(response)[1].arrival_time = Clock(11, 30)

\* The transfer stations of the two-leg connections of a list.
TransferStationsOf(connections) ==
    {connections[i].segments[2].transfer_station :
        i \in {j \in 1 .. Len(connections) : Len(connections[j].segments) = 2}}

\* C15: when no route serves both the origin and the destination, and one
\* route runs forward from the origin to a station from which another route
\* runs forward to the destination, the search is answered with an empty
\* direct list and a list of connections with transfers that holds a two-leg
\* connection changing at that station.
C15_TransferFound ==
    (RequestOfStations /\ FindCommonRoutes(ReqFrom, ReqTo) = {}) =>
        \A t \in Stations :
            (\E r1 \in Routes, r5 \in Routes :
                 /\ r1 # r5
                 /\ StopsBefore(r1, ReqFrom, t)
                 /\ StopsBefore(r5, t, ReqTo)) =>
                /\ response.status = HTTP_200_OK
                /\ TransfersOf(response) # <<>>
                /\ t \in TransferStationsOf(TransfersOf(response))
                /\ response.direct_connections = <<>>

\* Route 1 runs from station 1 over station 2 to station 3, another route from
\* station 2 to station 4, and the search from 1 to 4 changes at station 2.
C15_Witness ==
    /\ request = <<<<1>>, <<4>>>>
    /\ Len(routePoints[1]) = 3
    /\ routePoints[1][1].station = 1
    /\ routePoints[1][2].station = 2
    /\ routePoints[1][3].station = 3
    /\ Len(routePoints[2]) = 2
    /\ routePoints[2][1].station = 2
    /\ routePoints[2][2].station = 4
    /\ FindCommonRoutes(1, 4) = {}
    /\ 2 \in TransferStationsOf(TransfersOf(response))

\* Station s has a stop on route r after the stop of station a.
StopsAfter(r, a, s) ==
    /\ FirstPoint(r, a) # Null
    /\ \E i \in 1 .. Len(routePoints[r]) :
           i > FirstPoint(r, a) /\ routePoints[r][i].station = s

\* The triples (r1, t, r2) of a one-transfer search.
OneTransferTriples(from_station_id, to_station_id) ==
    {triple \in Routes \X Stations \X Routes :
        /\ triple[1] # triple[3]
        /\ StopsAfter(triple[1], from_station_id, triple[2])
        /\ StopsBefore(triple[3], triple[2], to_station_id)}

\* The triple of a two-leg connection.
TripleOf(connection) ==
    <<connection.segments[1].route, connection.segments[1].arrival_station,
      connection.segments[2].route>>

\* The positions of a list whose entry x satisfies key[x] = value.
PositionsOf(keys, value) == {i \in 1 .. Len(keys) : keys[i] = value}

\* get ran the method for the request in flight.
Invoked(method) == RequestOfStations /\ method \in SeqToSet(invoked)

\* C16: the one-transfer finder returns exactly one two-leg connection for
\* each triple (r1, t, r2) with r1 stopping at the origin, t a stop of r1
\* after the origin's, r2 # r1 and r2 stopping at t before the destination,
\* and no other connection.
C16_OneTransferExact ==
    Invoked("_find_connections_via_one_transfer") =>
        LET found == FindConnectionsViaOneTransfer(ReqFrom, ReqTo)
            triples == [i \in 1 .. Len(found) |-> TripleOf(found[i])]
        IN  /\ \A i \in 1 .. Len(found) :
                   /\ Len(found[i].segments) = 2
                   /\ triples[i] \in OneTransferTriples(ReqFrom, ReqTo)
            /\ \A triple \in OneTransferTriples(ReqFrom, ReqTo) :
                   Cardinality(PositionsOf(triples, triple)) = 1

\* C17: in every three-leg connection the two-transfer finder builds, the
\* second transfer station is neither the destination nor a station already
\* on the path: the origin or the first transfer station.
C17_SecondTransferIsNew ==
    Invoked("_find_connections_via_two_transfers") =>
        LET found == FindConnectionsViaTwoTransfers(ReqFrom, ReqTo)
        IN  \A i \in 1 .. Len(found) :
                LET second_transfer == found[i].segments[3].transfer_station
                IN  /\ second_transfer # ReqTo
                    /\ second_transfer # found[i].segments[2].transfer_station
                    /\ second_transfer # ReqFrom

\* A returned three-leg connection whose second transfer station is a fourth
\* station of the path.
C17_Witness ==
    /\ Invoked("_find_connections_via_two_transfers")
    /\ ReqFrom # ReqTo
    /\ \E i \in 1 .. Len(TransfersOf(response)) :
           LET c == TransfersOf(response)[i]
           IN  /\ Len(c.segments) = 3
               /\ c \in SeqToSet(FindConnectionsViaTwoTransfers(ReqFrom, ReqTo))
               /\ Cardinality({ReqFrom, ReqTo, c.segments[2].transfer_station,
                                c.segments[3].transfer_station}) = 4

\* The chains (r1, t1, r2, t2, r3) of a two-transfer search.
TwoTransferChains(from_station_id, to_station_id) ==
    {chain \in Routes \X Stations \X Routes \X Stations \X Routes :
        /\ chain[1] # chain[3]
        /\ chain[1] # chain[5]
        /\ chain[3] # chain[5]
        /\ chain[4] # to_station_id
        /\ StopsBefore(chain[1], from_station_id, chain[2])
        /\ StopsBefore(chain[3], chain[2], chain[4])
        /\ StopsBefore(chain[5], chain[4], to_station_id)}

\* The chain of a three-leg connection.
ChainOf(connection) ==
    <<connection.segments[1].route, connection.segments[1].arrival_station,
      connection.segments[2].route, connection.segments[2].arrival_station,
      connection.segments[3].route>>

\* C18: the two-transfer finder returns exactly one three-leg connection for
\* each chain (r1, t1, r2, t2, r3) of pairwise distinct routes with r1 running
\* forward from the origin to t1, r2 from t1 to t2, t2 not the destination,
\* and r3 from t2 to the destination, and no other connection.
C18_TwoTransfersExact ==
    Invoked("_find_connections_via_two_transfers") =>
        LET found == FindConnectionsViaTwoTransfers(ReqFrom, ReqTo)
            chains == [i \in 1 .. Len(found) |-> ChainOf(found[i])]
        IN  /\ \A i \in 1 .. Len(found) :
                   /\ Len(found[i].segments) = 3
                   /\ chains[i] \in TwoTransferChains(ReqFrom, ReqTo)
            /\ \A chain \in TwoTransferChains(ReqFrom, ReqTo) :
                   Cardinality(PositionsOf(chains, chain)) = 1

\* The routes on which a direct connection is to be built: they stop at both
\* stations, at the origin first.
DirectRoutes(from_station_id, to_station_id) ==
    {r \in Routes : /\ HasStop(r, from_station_id)
                    /\ HasStop(r, to_station_id)
                    /\ StopsBefore(r, from_station_id, to_station_id)}

\* C19: the Direct Finder returns exactly one single-leg connection for each
\* route that stops at both stations with the origin's stop before the
\* destination's, and nothing for any other route.
C19_DirectExact ==
    Invoked("_find_common_routes") =>
        LET found == FindDirect(ReqFrom, ReqTo)
            routes == [i \in 1 .. Len(found) |-> found[i].route]
        IN  /\ \A i \in 1 .. Len(found) :
                   /\ routes[i] \in DirectRoutes(ReqFrom, ReqTo)
                   /\ found[i].departure_station = ReqFrom
                   /\ found[i].arrival_station = ReqTo
            /\ \A r \in DirectRoutes(ReqFrom, ReqTo) :
                   Cardinality(PositionsOf(routes, r)) = 1
            /\ found # <<>> =>
                   /\ Len(response.direct_connections) = Len(found)
                   /\ SeqToSet(response.direct_connections) = SeqToSet(found)

\* Two routes run forward between the stations and a third one, which visits
\* the origin twice, runs back: two direct connections.
C19_Witness ==
    /\ Invoked("_build_connections")
    /\ ReqFrom # ReqTo
    /\ Cardinality(DirectRoutes(ReqFrom, ReqTo)) = 2
    /\ Cardinality(FindCommonRoutes(ReqFrom, ReqTo)) = 3
    /\ Len(RouteIdsAt(ReqFrom)) = 4
    /\ Len(response.direct_connections) = 2

\* The first position of a method in the calls of get, 0 when it is not called.
CallPosition(method) ==
    IF PositionsOf(invoked, method) = {} THEN 0
    ELSE CHOOSE i \in PositionsOf(invoked, method) :
             \A j \in PositionsOf(invoked, method) : i <= j

\* C20: when the Direct Finder yields nothing for the requested stations, be
\* it that common routes exist and all run the wrong way, get runs the
\* one-transfer finder and then the two-transfer finder and answers with an
\* empty direct list and the two result lists, concatenated and sorted by
\* travel plus waiting time.
C20_TransferFallback ==
    (RequestOfStations /\ FindDirect(ReqFrom, ReqTo) = <<>>) =>
        /\ CallPosition("_find_connections_via_one_transfer") > 0
        /\ CallPosition("_find_connections_via_one_transfer")
               < CallPosition("_find_connections_via_two_transfers")
        /\ {"direct_connections", "connections_with_transfers"} \subseteq DOMAIN response
        /\ response.direct_connections = <<>>
        /\ response.connections_with_transfers =
               SortTransfers(FindConnectionsViaOneTransfer(ReqFrom, ReqTo)
                                 \o FindConnectionsViaTwoTransfers(ReqFrom, ReqTo))

\* The sum of a field over the segments of a connection.
RECURSIVE SumField(_, _)
SumField(segs, field) ==
    IF segs = <<>> THEN 0 ELSE Head(segs)[field] + SumField(Tail(segs), field)

\* C21: every returned connection with transfers has transfers_count = number
\* of segments - 1, a total travel time, distance and stop count equal to the
\* sums over its segments, a total waiting time equal to the sum of the
\* waiting times of its transfers, the departure time of its first leg and
\* the arrival time of its last leg.
C21_TotalsAreSums ==
    RequestOfStations =>
        \A i \in 1 .. Len(TransfersOf(response)) :
            LET c == TransfersOf(response)[i]
                segs == c.segments
            IN  /\ c.transfers_count = Len(segs) - 1
                /\ c.total_travel_time_minutes = SumField(segs, "travel_time_minutes")
                /\ c.total_waiting_time_minutes
                       = SumField(Tail(segs), "waiting_time_minutes")
                /\ c.total_distance_km = SumField(segs, "distance_km")
                /\ c.total_stops_count = SumField(segs, "stops_count")
                /\ c.departure_time = segs[1].departure_time
                /\ c.arrival_time = segs[Len(segs)].arrival_time

\* A response carries a two-leg and a three-leg connection, the three-leg one
\* with a wait at both of its transfers.
C21_Witness ==
    /\ RequestOfStations
    /\ \E i \in 1 .. Len(TransfersOf(response)) :
           Len(TransfersOf(response)[i].segments) = 2
    /\ \E i \in 1 .. Len(TransfersOf(response)) :
           LET segs == TransfersOf(response)[i].segments
           IN  /\ Len(segs) = 3
               /\ segs[2].waiting_time_minutes > 0
               /\ segs[3].waiting_time_minutes > 0

\* The stops of a route whose sequence lies strictly between two sequences.
StopsStrictlyBetween(r, first, last) ==
    {k \in 1 .. Len(routePoints[r]) : k > first /\ k < last}

\* C22: the stop count of every segment of a response is the number of stops
\* of its route whose sequence lies strictly between the sequence of the
\* departure stop and that of the arrival stop; it is 0 for adjacent stops and
\* never negative.
C22_StopsStrictlyBetween ==
    RequestOfStations =>
        \A seg \in SegmentsOf(response) :
            LET first == FirstPoint(seg.route, seg.departure_station)
                last == FirstPoint(seg.route, seg.arrival_station)
            IN  /\ seg.stops_count
                       = Cardinality(StopsStrictlyBetween(seg.route, first, last))
                /\ (last = first + 1 => seg.stops_count = 0)
                /\ seg.stops_count >= 0

\* A response carries a leg between adjacent stops and a leg that passes a stop.
C22_Witness ==
    /\ RequestOfStations
    /\ TransfersOf(response) # <<>>
    /\ \E seg \in SegmentsOf(response) : seg.stops_count = 0
    /\ \E seg \in SegmentsOf(response) : seg.stops_count = 1

\* The request of thread w passed validation and names two stations.
Validated(w) ==
    /\ req[w] # <<>>
    /\ ValidateParameters(req[w][1], req[w][2]) = None
    /\ ParseInt(req[w][1]) \in Stations
    /\ ParseInt(req[w][2]) \in Stations

\* C23: a call of get whose request passed validation ends in a success
\* response, whatever candidate failed to build and whatever row a lookup
\* did not find, in the direct phase as well as in the transfer phases.
C23_BuildFailuresExcluded ==
    \A w \in Workers :
        (pc[w] = "done" /\ Validated(w)) =>
            /\ "status" \in DOMAIN result[w]
            /\ result[w].status = HTTP_200_OK

\* C24: whatever the other threads do meanwhile, a call of get that saw no
\* write to the tables answers what get answers to the same request run
\* alone on that schedule.
C24_ConcurrentSearchesIndependent ==
    \A w \in Workers :
        (pc[w] = "done" /\ ~dirty[w]) =>
            result[w] = Get(req[w][1], req[w][2]).response

\* One thread has answered with a connection with transfers while the other,
\* asked something else, is in the middle of building three-leg connections.
C24_Witness ==
    /\ pc[1] = "done" /\ ~dirty[1]
    /\ TransfersOf(result[1]) # <<>>
    /\ pc[2] = "two_build" /\ ~dirty[2]
    /\ req[2] # req[1]
    /\ frame[2].all_connections # <<>>

\* C27: each direct connection carries at most 5 journeys, all rows of the
\* Journey table of its own route with status SCHEDULED, BOARDING or DELAYED
\* and a journey date not before today, in non-decreasing order of scheduled
\* departure; and the direct connections stand in the order of their travel
\* times (equal travel times in the order the routes were built), whatever
\* journeys they carry.
C27_NextJourneys ==
    RequestOfStations =>
        LET direct == DirectOf(response)
        IN  /\ \A i \in 1 .. Len(direct) :
                   LET next == direct[i].next_journeys
                   IN  /\ Len(next) <= 5
                       /\ \A k \in 1 .. Len(next) :
                              /\ \E j \in 1 .. Len(journeys) : journeys[j] = next[k]
                              /\ next[k].route = direct[i].route
                              /\ next[k].status \in {"SCHEDULED", "BOARDING", "DELAYED"}
                              /\ next[k].journey_date >= Today
                       /\ \A k \in 1 .. Len(next) - 1 :
                              next[k].scheduled_departure <= next[k + 1].scheduled_departure
            /\ \A i \in 1 .. Len(direct), k \in 1 .. Len(direct) :
                   i < k =>
                       \/ direct[i].travel_time_minutes < direct[k].travel_time_minutes
                       \/ /\ direct[i].travel_time_minutes = direct[k].travel_time_minutes
                          /\ direct[i].route < direct[k].route

\* Two direct connections are returned: the one in front carries five
\* journeys although its route has more open ones and rows of a past date and
\* of a closed status, the one behind carries fewer.
C27_Witness ==
    /\ RequestOfStations
    /\ Len(DirectOf(response)) = 2
    /\ Len(DirectOf(response)[1].next_journeys) = 5
    /\ Len(DirectOf(response)[2].next_journeys) < 5
    /\ Len(OpenJourneys(DirectOf(response)[1].route)) > 5
    /\ \E j \in 1 .. Len(journeys) :
           /\ journeys[j].route = DirectOf(response)[1].route
           /\ journeys[j].journey_date < Today
    /\ \E j \in 1 .. Len(journeys) :
           /\ journeys[j].route = DirectOf(response)[1].route
           /\ journeys[j].status = "CANCELLED"
    /\ \E k \in 1 .. 4 :
           \E i \in 1 .. Len(journeys), j \in 1 .. Len(journeys) :
               /\ i > j
               /\ journeys[i] = DirectOf(response)[1].next_journeys[k]
               /\ journeys[j] = DirectOf(response)[1].next_journeys[k + 1]

\* The tables a search reads.
storeVars == <<routePoints, routeRows, journeys>>

\* Some thread receives a request or takes a step of its call of get.
SearchMoves == pc' # pc \/ req' # req \/ frame' # frame \/ result' # result

\* Two calls of get with the same request that saw no write to the tables
\* gave the same answer.
SameAnswers ==
    \A v \in Workers, w \in Workers :
        (pc[v] = "done" /\ pc[w] = "done" /\ ~dirty[v] /\ ~dirty[w] /\ req[v] = req[w])
            => result[v] = result[w]

MinutesOfDay == 0 .. (DayMinutes - 1)

\* The connection is the one built for a one-transfer candidate.
BuiltFor(connection, c) ==
    /\ Len(connection.segments) = 2
    /\ connection.segments[1].route = c[1]
    /\ connection.segments[2].route = c[3]
    /\ connection.segments[2].transfer_station = c[2]

C28_OneListAndItsCount ==
    (request # <<>> /\ response.status = HTTP_200_OK) =>
        /\ ~(DirectOf(response) # <<>> /\ TransfersOf(response) # <<>>)
        /\ response.count = IF DirectOf(response) # <<>> THEN Len(DirectOf(response))
                            ELSE Len(TransfersOf(response))

\* A response with several connections with transfers, two of them the same,
\* to a request for which a common route exists but runs the wrong way.
C28_Witness ==
    /\ RequestOfStations
    /\ response.status = HTTP_200_OK
    /\ FindCommonRoutes(ReqFrom, ReqTo) # {}
    /\ DirectOf(response) = <<>>
    /\ Len(TransfersOf(response)) >= 2
    /\ Cardinality(SeqToSet(TransfersOf(response))) < Len(TransfersOf(response))
    /\ response.count = Len(TransfersOf(response))

\* The connections of a list whose travel and waiting time add up to total,
\* in the order of the list.
OfTotal(connections, total) ==
    FlatMap([i \in 1 .. Len(connections) |->
                IF TotalTimeKey(connections[i]) = total THEN <<connections[i]>> ELSE <<>>],
            Range(1, Len(connections)))

\* C29: the connections with transfers of equal total (travel + waiting) time
\* stand in the response in the order in which they were enumerated, so
\* every one-transfer connection stands before every two-transfer connection
\* of the same total.
C29_TiesKeepEnumerationOrder ==
    Invoked("_find_connections_with_transfers") =>
        LET found == TransfersOf(response)
        IN  /\ \A i \in 1 .. Len(found) :
                   OfTotal(found, TotalTimeKey(found[i]))
                       = OfTotal(FindConnectionsWithTransfers(ReqFrom, ReqTo, MaxTransfers),
                                 TotalTimeKey(found[i]))
            /\ \A i \in 1 .. Len(found), k \in 1 .. Len(found) :
                   (/\ TotalTimeKey(found[i]) = TotalTimeKey(found[k])
                    /\ found[i].transfers_count = 1
                    /\ found[k].transfers_count = 2) => i < k

\* A one-transfer and a two-transfer connection of the same total time were
\* returned.
C29_Witness ==
    /\ Invoked("_find_connections_with_transfers")
    /\ \E i \in 1 .. Len(TransfersOf(response)), k \in 1 .. Len(TransfersOf(response)) :
           /\ TotalTimeKey(TransfersOf(response)[i]) = TotalTimeKey(TransfersOf(response)[k])
           /\ TransfersOf(response)[i].transfers_count = 1
           /\ TransfersOf(response)[k].transfers_count = 2

\* C30: on every schedule, routes that lead back to their first station
\* included, every call of get comes to its end: each loop of the direct
\* phase and of the two enumerations runs through a finite list once, and
\* no connection of an answer has more than three legs.
C30_SearchTerminates ==
    /\ \A w \in Workers : (pc[w] \notin {"idle", "done"}) ~> (pc[w] = "done")
    /\ [](\A w \in Workers : \A i \in 1 .. Len(TransfersOf(result[w])) :
              Len(TransfersOf(result[w])[i].segments) <= 3)

\* A search from Warszawa to Warszawa, on routes that run there and back, has
\* ended with the connections it found after both enumerations.
C30_Witness ==
    /\ routeRows = {1, 2}
    /\ pc[1] = "done" /\ ~dirty[1]
    /\ req[1] = <<<<Warszawa>>, <<Warszawa>>>>
    /\ TransfersOf(result[1]) # <<>>
    /\ frame[1].todo = <<>>

====
